---- MODULE Spec2Model ----
(***************************************************************************)
(* NetBox site management: the API client (scripts/netbox_client.py) and   *)
(* the command line front end (scripts/manage_sites.py), run as a number   *)
(* of CLI invocations against one NetBox server.                           *)
(*                                                                         *)
(* Strings are sequences of one-character strings, so that lower(),        *)
(* replace(), split() and strip() are computed character by character.     *)
(***************************************************************************)
EXTENDS Integers, Sequences, FiniteSets, TLC

VARIABLES
    sites,      \* server: the site objects held by NetBox
    tags,       \* server: the tag objects held by NetBox
    nextId,     \* server: the next id NetBox assigns
    proc,       \* one record per CLI invocation (see IdleProc)
    created,    \* history: names whose create invocation printed success, not deleted since
    call,       \* SpecFn: the function applied and its input
    ret         \* SpecFn: what it returned or raised

vars == <<sites, tags, nextId, proc, created, call, ret>>

\* ---------------------------------------------------------------- bounds

MaxProcs == 2
MaxNameLen == 3

\* ------------------------------------------------------------ python values

None == [type |-> "None"]

Range(s) == {s[k] : k \in DOMAIN s}

UpperChars ==
    <<"A","B","C","D","E","F","G","H","I","J","K","L","M",
      "N","O","P","Q","R","S","T","U","V","W","X","Y","Z">>

LowerChars ==
    <<"a","b","c","d","e","f","g","h","i","j","k","l","m",
      "n","o","p","q","r","s","t","u","v","w","x","y","z">>

Whitespace == {" ", "\t", "\n", "\r"}

\* str.lower() on one character
LowerChar(c) ==
    IF \E k \in DOMAIN UpperChars : UpperChars[k] = c
    THEN LowerChars[CHOOSE k \in DOMAIN UpperChars : UpperChars[k] = c]
    ELSE c

\* str.lower()
Lower(s) == [k \in DOMAIN s |-> LowerChar(s[k])]

\* str.replace(old, new) for a one-character old and new
Replace(s, old, new) == [k \in DOMAIN s |-> IF s[k] = old THEN new ELSE s[k]]

SlugifyKeepCase(name) == Replace(name, "_", "-")

\* name.lower().replace("_", "-")
Slugify(name) == Replace(Lower(name), "_", "-")

\* str.split(",")
RECURSIVE Split(_)
Split(s) ==
    IF \E k \in DOMAIN s : s[k] = ","
    THEN LET k == CHOOSE j \in DOMAIN s : s[j] = "," /\ \A m \in 1..(j - 1) : s[m] # ","
         IN  <<SubSeq(s, 1, k - 1)>> \o Split(SubSeq(s, k + 1, Len(s)))
    ELSE <<s>>

\* str.strip()
RECURSIVE Strip(_)
Strip(s) ==
    IF s = <<>> THEN s
    ELSE IF Head(s) \in Whitespace THEN Strip(Tail(s))
    ELSE IF s[Len(s)] \in Whitespace THEN Strip(SubSeq(s, 1, Len(s) - 1))
    ELSE s

\* [tag.strip() for tag in args.tag.split(",")]
ParseTags(tag) == LET parts == Split(tag) IN [k \in DOMAIN parts |-> Strip(parts[k])]

\* ------------------------------------------------------------- _request

\* What session.request() yields: a Response, or a RequestException that
\* carries a response (too many redirects), or one that carries none
\* (connection error, timeout).
NoResponse == [kind |-> "exception", has_response |-> FALSE, status |-> 0,
               text |-> "", json |-> <<>>]

\* A Response: its status code, its body text, and the body parsed as JSON
\* (<<v>> when the text is the JSON value v, <<>> when it is not JSON).
Response(status, text, json) ==
    [kind |-> "response", has_response |-> TRUE, status |-> status,
     text |-> text, json |-> json]

Returns(value) == [kind |-> "return", value |-> value]

\* RuntimeError(f"NetBox API error {status}: {text}")
ApiError(status, text) ==
    [kind |-> "raise", exc |-> "RuntimeError", form |-> "NetBox API error",
     status |-> status, text |-> text]

\* RuntimeError(f"NetBox API request failed: {exc}")
RequestFailed ==
    [kind |-> "raise", exc |-> "RuntimeError", form |-> "NetBox API request failed",
     status |-> 0, text |-> ""]

\* response.json() on a body that is not JSON: requests >= 2.27 raises its own
\* JSONDecodeError, a RequestException without a response, which the except
\* clause turns into the request-failed error; older versions raise a plain
\* ValueError, which the except clause does not catch.
JsonDecodeUncaught ==
    [kind |-> "raise", exc |-> "ValueError", form |-> "JSONDecodeError",
     status |-> 0, text |-> ""]

\* response.raise_for_status() raises for 400..599 only
RaisesForStatus(status) == 400 <= status /\ status < 600

\* The outcomes of NetBoxClient._request for what session.request() yielded.
RequestTruthyResponse(r) ==
    IF r.kind = "exception"
    THEN IF r.has_response /\ ~RaisesForStatus(r.status)
         THEN {ApiError(r.status, r.text)} ELSE {RequestFailed}
    ELSE IF RaisesForStatus(r.status) THEN {RequestFailed}
    ELSE IF r.status = 204 THEN {Returns(None)}
    ELSE IF r.json # <<>> THEN {Returns(r.json[1])}
    ELSE {RequestFailed, JsonDecodeUncaught}

Request(r) ==
    IF r.kind = "exception"
    THEN IF r.has_response THEN {ApiError(r.status, r.text)} ELSE {RequestFailed}
    ELSE IF RaisesForStatus(r.status) THEN {ApiError(r.status, r.text)}
    ELSE IF r.status = 204 THEN {Returns(None)}
    ELSE IF r.json # <<>> THEN {Returns(r.json[1])}
    ELSE {RequestFailed, JsonDecodeUncaught}

\* ------------------------------------------------------------- payloads

\* create_tag's payload
TagPayload(name) == [name |-> name, slug |-> Slugify(name)]

\* create_site's payload; the "tags" key is set only for a non-empty tag list
SitePayload(name, status, tag_objects) ==
    IF tag_objects # <<>>
    THEN [name |-> name, slug |-> Slugify(name), status |-> status, tags |-> tag_objects]
    ELSE [name |-> name, slug |-> Slugify(name), status |-> status]

\* ------------------------------------------------------------- requests

SitesPath == "/api/dcim/sites/"
SitePath == "/api/dcim/sites/{site_id}/"
TagsPath == "/api/extras/tags/"

\* One call of session.request: params is <<>> or <<name>>, json is <<>> or
\* <<payload>>, id is the {site_id} of the path (0 when the path has none).
Req(method, path, id, params, json) ==
    [method |-> method, path |-> path, id |-> id, params |-> params, json |-> json]

ListSitesReq == Req("GET", SitesPath, 0, <<>>, <<>>)
GetSiteReq(name) == Req("GET", SitesPath, 0, <<name>>, <<>>)
GetTagReq(name) == Req("GET", TagsPath, 0, <<name>>, <<>>)
CreateTagReq(name) == Req("POST", TagsPath, 0, <<>>, <<TagPayload(name)>>)
CreateSiteReq(name, status, tag_objects) ==
    Req("POST", SitesPath, 0, <<>>, <<SitePayload(name, status, tag_objects)>>)
DeleteSiteReq(site_id) == Req("DELETE", SitePath, site_id, <<>>, <<>>)

\* --------------------------------------------------------------- NetBox

StatusLabel(status) == IF status = "planned" THEN "Planned" ELSE "Active"

RECURSIVE ById(_)
\* the objects of a set in ascending id order
ById(objs) ==
    IF objs = {} THEN <<>>
    ELSE LET o == CHOOSE x \in objs : \A y \in objs : x.id <= y.id
         IN  <<o>> \o ById(objs \ {o})

\* the pagination envelope {count, results}
Envelope(objs) == [count |-> Cardinality(objs), results |-> ById(objs)]

OkBody == "<json>"

\* What a NetBox that answers does with a request: the response and the
\* server's state after it.
Handled(resp, s, t, n) == [resp |-> resp, sites |-> s, tags |-> t, nextId |-> n]

Handle(req) ==
    IF req.method = "GET" /\ req.path = SitesPath THEN
        LET found == IF req.params = <<>> THEN sites
                     ELSE {x \in sites : x.name = req.params[1]}
        IN  Handled(Response(200, OkBody, <<Envelope(found)>>), sites, tags, nextId)
    ELSE IF req.method = "GET" /\ req.path = TagsPath THEN
        LET found == IF req.params = <<>> THEN tags
                     ELSE {x \in tags : x.name = req.params[1]}
        IN  Handled(Response(200, OkBody, <<Envelope(found)>>), sites, tags, nextId)
    ELSE IF req.method = "POST" /\ req.path = TagsPath THEN
        LET p == req.json[1] IN
        IF \E x \in tags : x.name = p.name \/ x.slug = p.slug
        THEN Handled(Response(400, "tag already exists", <<>>), sites, tags, nextId)
        ELSE LET obj == [id |-> nextId, name |-> p.name, slug |-> p.slug]
             IN  Handled(Response(201, OkBody, <<obj>>), sites, tags \cup {obj}, nextId + 1)
    ELSE IF req.method = "POST" /\ req.path = SitesPath THEN
        LET p == req.json[1]
            ids == IF "tags" \in DOMAIN p THEN Range(p.tags) ELSE {}
        IN
        IF \/ \E x \in sites : x.name = p.name \/ x.slug = p.slug
           \/ \E k \in ids : \A x \in tags : x.id # k
        THEN Handled(Response(400, "site rejected", <<>>), sites, tags, nextId)
        ELSE LET obj == [id |-> nextId, name |-> p.name, slug |-> p.slug,
                         status |-> [value |-> p.status, label |-> StatusLabel(p.status)],
                         tags |-> ById({x \in tags : x.id \in ids})]
             IN  Handled(Response(201, OkBody, <<obj>>), sites \cup {obj}, tags, nextId + 1)
    ELSE \* DELETE of one site
        IF \E x \in sites : x.id = req.id
        THEN Handled(Response(204, "", <<>>), {x \in sites : x.id # req.id}, tags, nextId)
        ELSE Handled(Response(404, "Not found.", <<>>), sites, tags, nextId)

\* The ways a round trip fails that leave the server as it was: a read by a
\* network failure (no response), a write by a server error. (_request on
\* every kind of answer is the subject of SpecFn.)
Failure(req) ==
    IF req.method = "GET"
    THEN Handled(NoResponse, sites, tags, nextId)
    ELSE Handled(Response(500, "Server Error", <<>>), sites, tags, nextId)

\* Everything one round trip can come to: NetBox handles the request, or the
\* round trip fails.
Serve(req) == {Handle(req), Failure(req)}

\* ------------------------------------------------------------ client

\* result["results"][0] if result["count"] > 0 else None
FirstOrNone(result) == IF result.count > 0 THEN result.results[1] ELSE None

\* ----------------------------------------------------------- invocations

Procs == 1..MaxProcs

\* the characters of a Python string literal
D1 == <<"D", "_", "1">>
E2 == <<"e", "2">>
T1 == <<"T", "_", "1">>
X == <<"x">>

SiteNames == {D1, E2}
StatusArgs == {"planned"}
\* --tag values: "x, T_1" and "x,x"
TagArgs == {X \o <<",", " ">> \o T1, X \o <<",">> \o X}

NoArgs == [command |-> "", name |-> <<>>, status |-> "", tag |-> <<>>, verbose |-> FALSE]

\* An invocation: where it is (pc: idle, the request it waits on, done when
\* main() returned, crashed when an exception left main()), the locals of the
\* subcommand and of NetBoxClient.create_site, the request in flight
\* (pending), the requests sent (log) and what _request made of each answer
\* (resps), the lines printed (out), the exception that ended it (err), and
\* the history flag after: a create of this name had succeeded when it
\* started and no site of this name was deleted since.
IdleProc ==
    [pc |-> "idle", args |-> NoArgs, tags |-> <<>>, existing_site |-> None,
     idx |-> 0, tag_objects |-> <<>>, pending |-> <<>>, log |-> <<>>,
     resps |-> <<>>, out |-> <<>>, err |-> None, after |-> FALSE]

\* printed lines
NoSitesLine == [text |-> "No sites found."]
HeaderLine == [text |-> "Existing sites:"]
SiteLine(site, verbose) ==
    IF verbose
    THEN [text |-> "- Name: {name}, Slug: {slug}, Status: {label}, Tags: {tags}",
          name |-> site.name, slug |-> site.slug, label |-> site.status.label,
          tags |-> [k \in DOMAIN site.tags |-> site.tags[k].name]]
    ELSE [text |-> "- {name}", name |-> site.name]
ExistsLine(name) == [text |-> "Site '{name}' already exists. No action taken.", name |-> name]
CreatingLine(name) == [text |-> "Creating site '{name}'...", name |-> name]
CreatedLine == [text |-> "Site created successfully."]
AbsentLine(name) == [text |-> "Site '{name}' does not exist. No action taken.", name |-> name]
DeletingLine(name, site_id) ==
    [text |-> "Deleting site '{name}' (ID: {site_id})...", name |-> name, site_id |-> site_id]
DeletedLine == [text |-> "Site deleted successfully."]
FailedLine(exc) == [text |-> "Failed to delete site: {exc}", exc |-> exc]

\* the invocation sends a request and blocks on it
Send(st, pc, req) ==
    [st EXCEPT !.pc = pc, !.pending = <<req>>, !.log = Append(@, req)]

\* _request returned or raised: the answer is recorded, nothing is in flight
Received(st, o) == [st EXCEPT !.pending = <<>>, !.resps = Append(@, o)]

\* an exception leaves main(): the process ends with a traceback
Crash(st, o) == [st EXCEPT !.pc = "crashed", !.err = o]

\* the subcommand returns
Return(st, lines) == [st EXCEPT !.pc = "done", !.out = @ \o lines]

\* ----------------------------------------- NetBoxClient.create_site (loop)

\* The head of "for tag in tags": the next tag is looked up, or, the list
\* done, the site is posted with the ids gathered.
ResolveNext(st) ==
    IF st.idx < Len(st.tags)
    THEN Send([st EXCEPT !.idx = @ + 1], "get_tag", GetTagReq(st.tags[st.idx + 1]))
    ELSE Send(st, "post_site",
              CreateSiteReq(st.args.name, st.args.status, st.tag_objects))

\* client.create_site(name, status, tags) up to its first request
ClientCreateSite(st) == ResolveNext([st EXCEPT !.idx = 0, !.tag_objects = <<>>])

\* get_tag_by_name returned or raised (client.create_site, in the loop)
GetTagDoneAlwaysCreate(st, o) ==
    IF o.kind = "raise" THEN Crash(st, o)
    ELSE Send(st, "create_tag", CreateTagReq(st.tags[st.idx]))

GetTagDone(st, o) ==
    IF o.kind = "raise" THEN Crash(st, o)
    ELSE LET tag_obj == FirstOrNone(o.value) IN
         IF tag_obj = None
         THEN Send(st, "create_tag", CreateTagReq(st.tags[st.idx]))
         ELSE ResolveNext([st EXCEPT !.tag_objects = Append(@, tag_obj.id)])

TypeError == [kind |-> "raise", exc |-> "TypeError", form |-> "'NoneType' object is not subscriptable",
              status |-> 0, text |-> ""]

\* create_tag returned or raised
CreateTagDone(st, o) ==
    IF o.kind = "raise" THEN Crash(st, o)
    ELSE IF o.value = None THEN Crash(st, TypeError)
    ELSE ResolveNext([st EXCEPT !.tag_objects = Append(@, o.value.id)])

\* the site POST returned or raised: back in manage_sites.create_site
PostSiteDoneSwallow(st, o) == Return(st, <<CreatedLine>>)

PostSiteDoneRetry(st, o) ==
    IF o.kind = "raise" THEN Send(st, "post_site", st.log[Len(st.log)])
    ELSE Return(st, <<CreatedLine>>)

PostSiteDone(st, o) ==
    IF o.kind = "raise" THEN Crash(st, o) ELSE Return(st, <<CreatedLine>>)

\* ------------------------------------------------------- manage_sites.py

\* list_sites(args) after client.list_sites()
ListSitesDoneHeaderFirst(st, o) ==
    IF o.kind = "raise" THEN Crash(st, o)
    ELSE LET results == o.value.results IN
         Return(st, <<HeaderLine>> \o
                    (IF results = <<>> THEN <<NoSitesLine>>
                     ELSE [k \in DOMAIN results |-> SiteLine(results[k], st.args.verbose)]))

ListSitesDone(st, o) ==
    IF o.kind = "raise" THEN Crash(st, o)
    ELSE LET results == o.value.results IN
         IF results = <<>> THEN Return(st, <<NoSitesLine>>)
         ELSE Return(st, <<HeaderLine>> \o
                         [k \in DOMAIN results |-> SiteLine(results[k], st.args.verbose)])

\* create_site(args) after client.get_site_by_name(args.name)
CreateLookupDoneNoCheck(st, o) ==
    IF o.kind = "raise" THEN Crash(st, o)
    ELSE ClientCreateSite([st EXCEPT !.existing_site = FirstOrNone(o.value),
                                     !.out = Append(@, CreatingLine(st.args.name))])

CreateLookupDone(st, o) ==
    IF o.kind = "raise" THEN Crash(st, o)
    ELSE LET existing_site == FirstOrNone(o.value) IN
         IF existing_site # None
         THEN Return([st EXCEPT !.existing_site = existing_site],
                     <<ExistsLine(st.args.name)>>)
         ELSE ClientCreateSite([st EXCEPT !.existing_site = existing_site,
                                          !.out = Append(@, CreatingLine(st.args.name))])

\* delete_site(args) after client.get_site_by_name(args.name)
DeleteLookupDoneNoCheck(st, o) ==
    IF o.kind = "raise" THEN Crash(st, o)
    ELSE LET existing_site == FirstOrNone(o.value) IN
         Send([st EXCEPT !.existing_site = existing_site,
                         !.out = Append(@, DeletingLine(st.args.name, 0))],
              "delete", DeleteSiteReq(IF existing_site = None THEN 0 ELSE existing_site.id))

DeleteLookupDone(st, o) ==
    IF o.kind = "raise" THEN Crash(st, o)
    ELSE LET existing_site == FirstOrNone(o.value) IN
         IF existing_site = None
         THEN Return([st EXCEPT !.existing_site = existing_site],
                     <<AbsentLine(st.args.name)>>)
         ELSE Send([st EXCEPT !.existing_site = existing_site,
                              !.out = Append(@, DeletingLine(st.args.name, existing_site.id))],
                   "delete", DeleteSiteReq(existing_site.id))

\* delete_site(args) after client._request("DELETE", ...), inside the try
DeleteDoneUncaught(st, o) ==
    IF o.kind = "raise" THEN Crash(st, o) ELSE Return(st, <<DeletedLine>>)

DeleteDone(st, o) ==
    IF o.kind = "raise"
    THEN IF o.exc = "RuntimeError" THEN Return(st, <<FailedLine(o)>>) ELSE Crash(st, o)
    ELSE Return(st, <<DeletedLine>>)

\* ---------------------------------------------------------------- state

NoCall == [fn |-> "", response |-> NoResponse, name |-> <<>>]

Init ==
    /\ sites = {}
    /\ tags = {}
    /\ nextId = 1
    /\ proc = [p \in Procs |-> IdleProc]
    /\ created = {}
    /\ call = NoCall
    /\ ret = None

\* Invocations are interchangeable, so they are started in the order of
\* their numbers.
CanStart(p) ==
    /\ proc[p].pc = "idle"
    /\ IF p = 1 THEN TRUE ELSE proc[p - 1].pc # "idle"

\* manage_sites.py list [-v]
StartList(p, verbose) ==
    /\ CanStart(p)
    /\ proc' = [proc EXCEPT ![p] =
                   Send([IdleProc EXCEPT !.args = [NoArgs EXCEPT !.command = "list",
                                                                 !.verbose = verbose]],
                        "list_sites", ListSitesReq)]
    /\ UNCHANGED <<sites, tags, nextId, created, call, ret>>

\* manage_sites.py create --name NAME --status STATUS --tag TAG
StartCreate(p, name, status, tag) ==
    /\ CanStart(p)
    /\ proc' = [proc EXCEPT ![p] =
                   Send([IdleProc EXCEPT !.args = [NoArgs EXCEPT !.command = "create",
                                                                 !.name = name,
                                                                 !.status = status,
                                                                 !.tag = tag],
                                         !.tags = ParseTags(tag),
                                         !.after = name \in created],
                        "create_lookup", GetSiteReq(name))]
    /\ UNCHANGED <<sites, tags, nextId, created, call, ret>>

\* manage_sites.py delete --name NAME
StartDelete(p, name) ==
    /\ CanStart(p)
    /\ proc' = [proc EXCEPT ![p] =
                   Send([IdleProc EXCEPT !.args = [NoArgs EXCEPT !.command = "delete",
                                                                 !.name = name]],
                        "delete_lookup", GetSiteReq(name))]
    /\ UNCHANGED <<sites, tags, nextId, created, call, ret>>

\* _request returned or raised: the code that called it goes on
Resume(st, o) ==
    CASE st.pc = "list_sites" -> ListSitesDone(st, o)
      [] st.pc = "create_lookup" -> CreateLookupDone(st, o)
      [] st.pc = "get_tag" -> GetTagDone(st, o)
      [] st.pc = "create_tag" -> CreateTagDone(st, o)
      [] st.pc = "post_site" -> PostSiteDone(st, o)
      [] st.pc = "delete_lookup" -> DeleteLookupDone(st, o)
      [] st.pc = "delete" -> DeleteDone(st, o)

\* One round trip of invocation p: NetBox serves the request in flight (or
\* the request fails), _request returns or raises, and the invocation runs on
\* to its next request or to its end.
RoundTrip(p) ==
    LET st == proc[p] IN
    \E h \in Serve(st.pending[1]) : \E o \in Request(h.resp) :
        LET st2 == Resume(Received(st, o), o)
            deleted == {x.name : x \in sites \ h.sites}
            succeeded == IF st2.pc = "done" /\ st.pc = "post_site"
                         THEN {st.args.name} ELSE {}
        IN  /\ sites' = h.sites
            /\ tags' = h.tags
            /\ nextId' = h.nextId
            /\ created' = (created \ deleted) \cup succeeded
            /\ proc' = [q \in Procs |->
                           LET s == IF q = p THEN st2 ELSE proc[q]
                           IN  [s EXCEPT !.after = @ /\ s.args.name \notin deleted]]
            /\ UNCHANGED <<call, ret>>

ListResponse(p) == proc[p].pc = "list_sites" /\ RoundTrip(p)

CreateLookupResponse(p) == proc[p].pc = "create_lookup" /\ RoundTrip(p)

GetTagResponse(p) == proc[p].pc = "get_tag" /\ RoundTrip(p)

CreateTagResponse(p) == proc[p].pc = "create_tag" /\ RoundTrip(p)

PostSiteResponse(p) == proc[p].pc = "post_site" /\ RoundTrip(p)

DeleteLookupResponse(p) == proc[p].pc = "delete_lookup" /\ RoundTrip(p)

DeleteResponse(p) == proc[p].pc = "delete" /\ RoundTrip(p)

Next ==
    \E p \in Procs :
        \/ \E verbose \in BOOLEAN : StartList(p, verbose)
        \/ \E name \in SiteNames, status \in StatusArgs, tag \in TagArgs :
               StartCreate(p, name, status, tag)
        \/ \E name \in SiteNames : StartDelete(p, name)
        \/ ListResponse(p)
        \/ CreateLookupResponse(p)
        \/ GetTagResponse(p)
        \/ CreateTagResponse(p)
        \/ PostSiteResponse(p)
        \/ DeleteLookupResponse(p)
        \/ DeleteResponse(p)

Spec == Init /\ [][Next]_vars

\* ------------------------------------------- the pure functions, on their own

NameAlphabet == {"D", "d", "_", "-", "1"}

Names == UNION {[1..n -> NameAlphabet] : n \in 0..MaxNameLen}

Statuses == {200, 201, 204, 302, 304, 400, 404, 500}

\* body text and what it parses to
Bodies ==
    { [text |-> "", json |-> <<>>],
      [text |-> "<html>", json |-> <<>>],
      [text |-> "{}", json |-> <<[detail |-> ""]>>],
      [text |-> "{count: 0, results: []}", json |-> <<Envelope({})>>] }

Responses ==
    {NoResponse}
    \cup {Response(s, b.text, b.json) : s \in Statuses, b \in Bodies}
    \cup {[Response(s, b.text, b.json) EXCEPT !.kind = "exception"] :
              s \in {302}, b \in Bodies}

\* self._request(method, endpoint) on one answer of session.request
FnRequest ==
    \E r \in Responses : \E o \in Request(r) :
        /\ call = NoCall
        /\ call' = [NoCall EXCEPT !.fn = "_request", !.response = r]
        /\ ret' = o
        /\ UNCHANGED <<sites, tags, nextId, proc, created>>

\* the payload create_tag(name) posts
FnCreateTag ==
    \E name \in Names :
        /\ call = NoCall
        /\ call' = [NoCall EXCEPT !.fn = "create_tag", !.name = name]
        /\ ret' = TagPayload(name)
        /\ UNCHANGED <<sites, tags, nextId, proc, created>>

\* the payload create_site(name, status, tags) posts
FnCreateSite ==
    \E name \in Names, status \in StatusArgs, tag_objects \in {<<>>, <<1>>} :
        /\ call = NoCall
        /\ call' = [NoCall EXCEPT !.fn = "create_site", !.name = name]
        /\ ret' = SitePayload(name, status, tag_objects)
        /\ UNCHANGED <<sites, tags, nextId, proc, created>>

NextFn == FnRequest \/ FnCreateTag \/ FnCreateSite

SpecFn == Init /\ [][NextFn]_vars

\* ------------------------------------------------------------ properties

IsSiteGet(r) == r.method = "GET" /\ r.path = SitesPath
IsTagGet(r) == r.method = "GET" /\ r.path = TagsPath
IsTagPost(r) == r.method = "POST" /\ r.path = TagsPath
IsSitePost(r) == r.method = "POST" /\ r.path = SitesPath
IsDelete(r) == r.method = "DELETE"
IsMutating(r) == r.method \in {"POST", "DELETE"}
IsTagRequest(r) == r.path = TagsPath

Count(seq, Test(_)) == Cardinality({k \in DOMAIN seq : Test(seq[k])})

Started == {p \in Procs : proc[p].pc # "idle"}
Running(command) == {p \in Started : proc[p].args.command = command}

\* the k-th request of the invocation was answered, and _request returned
Returned(st, k) == k <= Len(st.resps) /\ st.resps[k].kind = "return"
\* the k-th request of the invocation failed: _request raised
Failed(st, k) == k <= Len(st.resps) /\ st.resps[k].kind = "raise"
\* the k-th request was a lookup by name that returned a miss / a hit
Missed(st, k) == Returned(st, k) /\ st.resps[k].value.count = 0
Hit(st, k) == Returned(st, k) /\ st.resps[k].value.count > 0

\* C1: a create that starts after a create of the same name printed success,
\* with no site of that name deleted since, sends no POST at all; unless its
\* lookup request itself fails it finds the site, prints the no-op notice and
\* ends normally. The invocation that printed success sent exactly one site
\* POST, so the two together sent exactly one.
C1_CreateIdempotent ==
    /\ \A p \in Running("create") :
           LET st == proc[p] IN
           st.after =>
               /\ \A k \in DOMAIN st.log : st.log[k].method # "POST"
               /\ Len(st.log) = 1
               /\ Returned(st, 1) =>
                      /\ Hit(st, 1)
                      /\ st.pc = "done"
                      /\ st.out = <<ExistsLine(st.args.name)>>
                      /\ st.err = None
    /\ \A p \in Running("create") :
           CreatedLine \in Range(proc[p].out) => Count(proc[p].log, IsSitePost) = 1

C1_Witness ==
    \E p, q \in Running("create") :
        /\ p # q
        /\ proc[p].args.name = proc[q].args.name
        /\ CreatedLine \in Range(proc[p].out)
        /\ proc[q].after
        /\ proc[q].pc = "done"
        /\ proc[q].out = <<ExistsLine(proc[q].args.name)>>

\* C2: a delete whose lookup reports the site absent sends no DELETE, prints
\* the no-op notice and ends normally; a DELETE is sent only by a delete, as
\* its second request, after its lookup returned a site, and to the id of
\* that site.
C2_DeleteIdempotent ==
    /\ \A p \in Running("delete") :
           LET st == proc[p] IN
           Missed(st, 1) =>
               /\ Count(st.log, IsDelete) = 0
               /\ st.pc = "done"
               /\ st.out = <<AbsentLine(st.args.name)>>
               /\ st.err = None
    /\ \A p \in Started :
           LET st == proc[p] IN
           \A k \in DOMAIN st.log :
               IsDelete(st.log[k]) =>
                   /\ st.args.command = "delete"
                   /\ k = 2
                   /\ st.log[1] = GetSiteReq(st.args.name)
                   /\ Hit(st, 1)
                   /\ st.log[k] = DeleteSiteReq(st.resps[1].value.results[1].id)

C2_Witness ==
    \E p \in Running("delete") :
        /\ Missed(proc[p], 1)
        /\ proc[p].pc = "done"
        /\ proc[p].out = <<AbsentLine(proc[p].args.name)>>

C2_WitnessSent ==
    \E p \in Running("delete") : Hit(proc[p], 1) /\ Count(proc[p].log, IsDelete) = 1

\* the position in the log of the i-th tag GET
TagGetAt(log, i) ==
    CHOOSE k \in DOMAIN log :
        IsTagGet(log[k]) /\ Cardinality({j \in 1..k : IsTagGet(log[j])}) = i

\* the id the i-th tag was resolved to: that of the object its GET returned,
\* or, after a miss, that of the object its POST returned
ResolvedId(st, i) ==
    LET k == TagGetAt(st.log, i) IN
    IF Hit(st, k) THEN st.resps[k].value.results[1].id ELSE st.resps[k + 1].value.id

\* C3: in client.create_site the tag GETs are sent for the names of the tag
\* list in list order; a tag POST directly follows the GET of the same name
\* that missed, and only that; after a GET that hit no tag POST follows; the
\* site POST is the last request, sent after every tag of the list was
\* resolved, and its tags are the resolved ids in list order.
C3_TagGetOrCreate ==
    \A p \in Running("create") :
        LET st == proc[p]
            gets == SelectSeq(st.log, IsTagGet)
        IN
        /\ Len(gets) <= Len(st.tags)
        /\ \A i \in DOMAIN gets : gets[i] = GetTagReq(st.tags[i])
        /\ \A k \in DOMAIN st.log :
               /\ IsTagPost(st.log[k]) =>
                      /\ k > 1
                      /\ IsTagGet(st.log[k - 1])
                      /\ Missed(st, k - 1)
                      /\ st.log[k].json[1].name = st.log[k - 1].params[1]
               /\ IsTagGet(st.log[k]) /\ Missed(st, k) =>
                      /\ Len(st.log) > k
                      /\ st.log[k + 1] = CreateTagReq(st.log[k].params[1])
               /\ IsTagGet(st.log[k]) /\ Hit(st, k) =>
                      ~(Len(st.log) > k /\ IsTagPost(st.log[k + 1]))
               /\ IsSitePost(st.log[k]) =>
                      /\ k = Len(st.log)
                      /\ Len(gets) = Len(st.tags)
                      /\ \A j \in 1..(k - 1) : Returned(st, j)
                      /\ st.log[k].json[1].tags =
                             [i \in DOMAIN st.tags |-> ResolvedId(st, i)]

C3_Witness ==
    \E p \in Running("create") :
        LET st == proc[p] IN
        /\ st.pc = "done"
        /\ Count(st.log, IsSitePost) = 1
        /\ Count(st.log, IsTagPost) = 1
        /\ \E k \in DOMAIN st.log : IsTagGet(st.log[k]) /\ Hit(st, k)
        /\ st.tags[1] # st.tags[2]

\* C4 as the specification has it: no request failure of a delete, on the lookup or on the
\* DELETE, leaves the subcommand; each is printed as a failure message.
C4_Original ==
    \A p \in Running("delete") :
        LET st == proc[p] IN
        /\ st.pc # "crashed"
        /\ \A k \in DOMAIN st.resps :
               Failed(st, k) =>
                   st.pc = "done" /\ st.out[Len(st.out)] = FailedLine(st.resps[k])

\* C4: a failure of the DELETE request is caught in delete_site and printed
\* as "Failed to delete site: ..."; the subcommand then ends normally. A
\* failure of the name lookup is not caught: it ends the invocation with the
\* client's error, nothing printed and no DELETE sent, and it is the only
\* failure that does.
C4_DeleteCaught ==
    \A p \in Running("delete") :
        LET st == proc[p] IN
        /\ Failed(st, 2) =>
               /\ IsDelete(st.log[2])
               /\ st.pc = "done"
               /\ st.err = None
               /\ st.out = <<DeletingLine(st.args.name, st.log[2].id), FailedLine(st.resps[2])>>
        /\ Failed(st, 1) =>
               /\ st.pc = "crashed"
               /\ st.err = st.resps[1]
               /\ st.out = <<>>
               /\ Len(st.log) = 1
        /\ st.pc = "crashed" => Failed(st, 1)

C4_Witness ==
    \E p \in Running("delete") :
        /\ Failed(proc[p], 2)
        /\ proc[p].pc = "done"
        /\ proc[p].out[2] = FailedLine(ApiError(500, "Server Error"))

C4_WitnessLookup ==
    \E p \in Running("delete") : Failed(proc[p], 1) /\ proc[p].pc = "crashed"

Success(status) == 200 <= status /\ status < 300

\* C5 as the specification has it: the outcome of _request is decided by the response alone,
\* and is one of four: a status outside 2xx raises the API error with the
\* status and the body text, no response raises the request-failed error, a
\* 204 returns None, any other 2xx returns the parsed body.
C5_Original ==
    call.fn = "_request" =>
        LET r == call.response IN
        /\ r.has_response /\ ~Success(r.status) => ret = ApiError(r.status, r.text)
        /\ ~r.has_response => ret = RequestFailed
        /\ r.has_response /\ r.status = 204 => ret = Returns(None)
        /\ r.has_response /\ Success(r.status) /\ r.status # 204 =>
               ret.kind = "return" /\ r.json # <<>> /\ ret = Returns(r.json[1])

\* C5: a 4xx or 5xx status (and an exception that carries a response) raises
\* the API error with the status and the body text; no response raises the
\* request-failed error; a 204 returns None; every other response, 1xx and 3xx
\* included, returns the parsed body when the body is JSON and raises when it
\* is not (the request-failed error, or the JSON library's ValueError with an
\* HTTP library that does not wrap it). No value is returned for a 4xx or 5xx
\* status, and the API error is raised for no status below 400 that
\* session.request returned.
C5_RequestOutcomes ==
    call.fn = "_request" =>
        LET r == call.response
            error == r.kind = "exception" \/ (400 <= r.status /\ r.status < 600)
        IN
        /\ r.has_response /\ error => ret = ApiError(r.status, r.text)
        /\ ~r.has_response => ret = RequestFailed
        /\ r.has_response /\ ~error /\ r.status = 204 => ret = Returns(None)
        /\ r.has_response /\ ~error /\ r.status # 204 /\ r.json # <<>> =>
               ret = Returns(r.json[1])
        /\ r.has_response /\ ~error /\ r.status # 204 /\ r.json = <<>> =>
               ret \in {RequestFailed, JsonDecodeUncaught}

C5_Witness ==
    /\ call.fn = "_request"
    /\ call.response = Response(404, "<html>", <<>>)
    /\ ret = ApiError(404, "<html>")

C5_WitnessNotJson ==
    /\ call.fn = "_request"
    /\ call.response = Response(200, "<html>", <<>>)
    /\ ret = RequestFailed

C5_WitnessRedirect ==
    /\ call.fn = "_request"
    /\ call.response.kind = "response"
    /\ call.response.status = 304
    /\ ret.kind = "return"

\* C6: in a list or a create the first request that fails ends the
\* invocation with the client's error: it is the last request sent, nothing
\* is in flight after it, and the success line is not printed. "Site created
\* successfully." is printed only after the site POST returned.
C6_Propagates ==
    \A p \in Running("list") \cup Running("create") :
        LET st == proc[p] IN
        /\ \A k \in DOMAIN st.resps :
               Failed(st, k) =>
                   /\ k = Len(st.log)
                   /\ st.pending = <<>>
                   /\ st.pc = "crashed"
                   /\ st.err = st.resps[k]
                   /\ CreatedLine \notin Range(st.out)
        /\ CreatedLine \in Range(st.out) =>
               /\ IsSitePost(st.log[Len(st.log)])
               /\ Returned(st, Len(st.log))
               /\ st.pc = "done"
        /\ st.pc = "crashed" => Failed(st, Len(st.log))

C6_Witness ==
    \E p \in Running("create") :
        LET st == proc[p] IN
        /\ st.pc = "crashed"
        /\ IsSitePost(st.log[Len(st.log)])
        /\ \E k \in DOMAIN st.log : IsTagPost(st.log[k]) /\ Returned(st, k)
        /\ st.out = <<CreatingLine(st.args.name)>>

C6_WitnessList ==
    \E p \in Running("list") : proc[p].pc = "crashed" /\ proc[p].err = RequestFailed

C6_WitnessConflict ==
    \E p \in Running("create") :
        /\ proc[p].pc = "crashed"
        /\ proc[p].err = ApiError(400, "site rejected")

\* C7: a list sends exactly one request, the GET of the sites collection,
\* and no other; when the result set is empty it prints the no-sites message
\* and nothing else, and otherwise the header and one line per site.
C7_ListOneGet ==
    \A p \in Running("list") :
        LET st == proc[p] IN
        /\ st.log = <<ListSitesReq>>
        /\ Count(st.log, IsMutating) = 0
        /\ Returned(st, 1) =>
               /\ st.pc = "done"
               /\ st.resps[1].value.results = <<>> => st.out = <<NoSitesLine>>
               /\ st.resps[1].value.results # <<>> =>
                      /\ st.out[1] = HeaderLine
                      /\ Len(st.out) = 1 + Len(st.resps[1].value.results)
                      /\ NoSitesLine \notin Range(st.out)

C7_Witness ==
    \E p \in Running("list") :
        /\ Returned(proc[p], 1)
        /\ proc[p].resps[1].value.results = <<>>
        /\ proc[p].out = <<NoSitesLine>>

C7_WitnessSites ==
    \E p \in Running("list") : Returned(proc[p], 1) /\ Len(proc[p].out) = 2

\* the slug character the specification gives for one character of a name
SlugChar(c) ==
    IF c = "_" THEN "-"
    ELSE IF c \in Range(UpperChars)
         THEN LowerChars[CHOOSE k \in DOMAIN UpperChars : UpperChars[k] = c]
         ELSE c

\* C8: the slug of a tag payload and of a site payload is the name, character
\* by character, with "_" turned into "-", an upper-case letter into its
\* lower-case letter and every other character kept.
C8_Slug ==
    call.fn \in {"create_tag", "create_site"} =>
        /\ ret.name = call.name
        /\ Len(ret.slug) = Len(call.name)
        /\ \A k \in DOMAIN call.name : ret.slug[k] = SlugChar(call.name[k])

C8_Witness ==
    /\ call.fn = "create_site"
    /\ call.name = <<"D", "_", "1">>
    /\ ret.slug = <<"d", "-", "1">>

C8_WitnessTag ==
    /\ call.fn = "create_tag"
    /\ call.name = <<"_", "D", "-">>
    /\ ret.slug = <<"-", "d", "-">>

\* the request an invocation at pc waits on is one that pc's response
\* action serves
Awaits(pc, req) ==
    \/ pc = "list_sites" /\ req = ListSitesReq
    \/ pc \in {"create_lookup", "delete_lookup"} /\ IsSiteGet(req) /\ req.params # <<>>
    \/ pc = "get_tag" /\ IsTagGet(req)
    \/ pc = "create_tag" /\ IsTagPost(req)
    \/ pc = "post_site" /\ IsSitePost(req)
    \/ pc = "delete" /\ IsDelete(req)

\* C9: a create sends its site POST on the strength of its one lookup, the
\* first request it sent, which returned a miss; the site is looked up no
\* second time, whatever other invocations did to the site in between.
C9_NoRevalidation ==
    \A p \in Running("create") :
        LET st == proc[p] IN
        \A k \in DOMAIN st.log :
            IsSitePost(st.log[k]) =>
                /\ st.log[1] = GetSiteReq(st.args.name)
                /\ Missed(st, 1)
                /\ st.existing_site = None
                /\ Count(st.log, IsSiteGet) = 1
                /\ st.log[k].json[1].name = st.args.name

\* two creates of one name both saw a miss and both sent the site POST, the
\* second one while the site of the first was already there
C9_Witness ==
    \E p, q \in Running("create") :
        /\ p # q
        /\ proc[p].args.name = proc[q].args.name
        /\ Missed(proc[p], 1) /\ Missed(proc[q], 1)
        /\ CreatedLine \in Range(proc[p].out)
        /\ proc[q].pc = "post_site"
        /\ \E x \in sites : x.name = proc[q].args.name

\* tag name t occurs more than once in the tag list
Repeated(st, t) == Cardinality({i \in DOMAIN st.tags : st.tags[i] = t}) > 1

\* C10 as the specification has it: one lookup or list GET, at most two tag requests, at most
\* one POST or DELETE in all, one request in flight at a time, no request
\* sent twice.
C10_Original ==
    \A p \in Started :
        LET st == proc[p] IN
        /\ Count(st.log, IsSiteGet) = 1
        /\ Count(st.log, IsTagRequest) <= 2
        /\ Count(st.log, IsMutating) <= 1
        /\ Len(st.log) = Len(st.resps) + Len(st.pending)
        /\ \A j, k \in DOMAIN st.log : st.log[j] = st.log[k] => j = k

\* C10: an invocation sends one lookup or list GET, its first request; a
\* create of n tag names then sends at most n tag GETs and at most one tag
\* POST per tag GET, and an invocation sends at most one site POST or DELETE,
\* its last request: at most 2 + 2n requests. One request is in flight at a
\* time; nothing is sent after a request that failed; a request is sent a
\* second time only as the GET of a tag name the list repeats. An invocation
\* that has not ended waits on a request whose answer lets it go on.
C10_Bounded ==
    \A p \in Started :
        LET st == proc[p] IN
        /\ IsSiteGet(st.log[1])
        /\ Count(st.log, IsSiteGet) = 1
        /\ Count(st.log, IsTagGet) <= Len(st.tags)
        /\ Count(st.log, IsTagPost) <= Count(st.log, IsTagGet)
        /\ Count(st.log, IsSitePost) + Count(st.log, IsDelete) <= 1
        /\ \A k \in DOMAIN st.log :
               IsSitePost(st.log[k]) \/ IsDelete(st.log[k]) => k = Len(st.log)
        /\ Len(st.log) <= 2 + 2 * Len(st.tags)
        /\ Len(st.pending) <= 1
        /\ Len(st.log) = Len(st.resps) + Len(st.pending)
        /\ st.pending # <<>> => st.pending[1] = st.log[Len(st.log)]
        /\ \A k \in 1..(Len(st.log) - 1) : Returned(st, k)
        /\ \A j, k \in DOMAIN st.log :
               st.log[j] = st.log[k] /\ j # k =>
                   IsTagGet(st.log[k]) /\ Repeated(st, st.log[k].params[1])
        /\ st.pc \in {"done", "crashed"} <=> st.pending = <<>>
        /\ st.pending # <<>> => Awaits(st.pc, st.pending[1])

C10_Witness ==
    \E p \in Running("create") :
        /\ proc[p].pc = "done"
        /\ Len(proc[p].tags) = 2
        /\ Len(proc[p].log) = 2 + 2 * Len(proc[p].tags)
        /\ Count(proc[p].log, IsMutating) = 3

C10_WitnessRepeat ==
    \E p \in Running("create") :
        \E j, k \in DOMAIN proc[p].log : j # k /\ proc[p].log[j] = proc[p].log[k]

====
